---- MODULE Spec2Model ----
(***************************************************************************)
(* Model of "baseline code/Python_Script_Graphs.py": a straight-line       *)
(* plotting script.  The data block (lines 15-68) is the script's input;   *)
(* the script derives speedups and cost savings from it with Python float  *)
(* arithmetic, renders two figures and writes each to a PNG file.          *)
(*                                                                         *)
(* Python's float is IEEE-754 binary64.  A float is modelled exactly as    *)
(* sign * man * 2^exp with a 53-bit significand, and "/", "-", "+", "*"    *)
(* round to nearest, ties to even, as the hardware does.  Significands do  *)
(* not fit TLC's 32-bit integers, so they are kept as two-limb numbers     *)
(* <<hi, lo>> in base 2^30.  Exponent overflow and subnormals are out of   *)
(* reach of the data modelled here and are not represented.                *)
(***************************************************************************)
EXTENDS Integers, Sequences, FiniteSets, TLC

\* ------------------------------------------------------------------------
\* Two-limb naturals below 2^60: <<hi, lo>> stands for hi * 2^30 + lo.
\* ------------------------------------------------------------------------
Base == 2^30

WZero == <<0, 0>>

WFromInt(n) == <<n \div Base, n % Base>>

WToInt(a) == a[1] * Base + a[2]

WAdd(a, b) ==
    LET lo == a[2] + b[2]
    IN  <<a[1] + b[1] + (lo \div Base), lo % Base>>

\* a - b for a >= b
WSub(a, b) ==
    LET lo == a[2] - b[2]
    IN  IF lo < 0 THEN <<a[1] - b[1] - 1, lo + Base>> ELSE <<a[1] - b[1], lo>>

WLt(a, b) == a[1] < b[1] \/ (a[1] = b[1] /\ a[2] < b[2])

WDouble(a) == WAdd(a, a)

WHalf(a) == <<a[1] \div 2, (a[1] % 2) * (Base \div 2) + (a[2] \div 2)>>

WOdd(a) == a[2] % 2 = 1

\* 2^n as a two-limb number, n <= 60
WPow2(n) == IF n < 30 THEN <<0, 2^n>> ELSE <<2^(n - 30), 0>>

\* a * 2^k, for a result below 2^60
WShlLimb(a, k) ==
    LET cut == 2^(30 - k)
    IN  <<a[1] * 2^k + (a[2] \div cut), (a[2] % cut) * 2^k>>

WShl(a, k) ==
    IF k <= 0 THEN a
    ELSE IF k >= 30 THEN WShlLimb(<<a[2], 0>>, k - 30)
    ELSE WShlLimb(a, k)

\* floor(a / 2^k) and a mod 2^k, for 0 <= k <= 60
WShr(a, k) ==
    IF k <= 0 THEN a
    ELSE IF k >= 30 THEN <<0, a[1] \div 2^(k - 30)>>
    ELSE <<a[1] \div 2^k, (a[1] % 2^k) * 2^(30 - k) + (a[2] \div 2^k)>>

WLow(a, k) ==
    IF k <= 0 THEN WZero
    ELSE IF k >= 30 THEN <<a[1] % 2^(k - 30), a[2]>>
    ELSE <<0, a[2] % 2^k>>

\* Number of significant bits of a.
WLen(a) == CHOOSE n \in 0..60 : WLt(a, WPow2(n)) /\ (n = 0 \/ ~WLt(a, WPow2(n - 1)))

\* a shifted right by k bits, the bits shifted out OR-ed into the lowest
\* bit kept (the "sticky" bit of a rounding step).
WShrJam(a, k) ==
    IF k <= 0 THEN a
    ELSE IF k >= 60 THEN (IF a = WZero THEN WZero ELSE <<0, 1>>)
    ELSE LET h == WShr(a, k)
         IN  IF WLow(a, k) # WZero /\ ~WOdd(h) THEN WAdd(h, <<0, 1>>) ELSE h

\* Whether cutting the low k bits (1 <= k <= 60) off a rounds the rest up:
\* the bits cut are more than half a unit, or exactly half with the rest odd.
RoundsUp(a, k) ==
    LET low  == WLow(a, k)
        half == WPow2(k - 1)
    IN  WLt(half, low) \/ (low = half /\ WOdd(WShr(a, k)))

\* a * n for a < 2^53 and a natural n < 2^7
WMulSmall(a, n) ==
    LET l0 == a[2] % 2^15
        l1 == (a[2] \div 2^15) * n
        lo == (l1 % 2^15) * 2^15 + l0 * n
    IN  <<a[1] * n + (l1 \div 2^15) + (lo \div Base), lo % Base>>

\* ------------------------------------------------------------------------
\* Python float: [sign, man, exp] is (-1)^sign * man * 2^exp, with
\* 2^52 <= man < 2^53, or man = 0 for 0.0.
\* ------------------------------------------------------------------------
Precision == 53

FZero == [sign |-> 0, man |-> WZero, exp |-> 0]

IsZero(x) == x.man = WZero

\* The float nearest to (-1)^sign * w * 2^e, where the lowest bit of a
\* w longer than Precision + 1 bits may be a sticky bit.  Ties go to the
\* even significand.
Round(sign, w, e) ==
    LET len == WLen(w)
    IN  IF len = 0 THEN FZero
        ELSE IF len <= Precision
        THEN [sign |-> sign, man |-> WShl(w, Precision - len),
              exp |-> e - (Precision - len)]
        ELSE LET k    == len - Precision
                 kept == WShr(w, k)
                 man  == IF RoundsUp(w, k) THEN WAdd(kept, <<0, 1>>) ELSE kept
             IN  IF WLen(man) > Precision
                 THEN [sign |-> sign, man |-> WHalf(man), exp |-> e + k + 1]
                 ELSE [sign |-> sign, man |-> man, exp |-> e + k]

\* int -> float, exact for |n| < 2^31
FromInt(n) ==
    IF n < 0 THEN Round(1, WFromInt(0 - n), 0) ELSE Round(0, WFromInt(n), 0)

\* One step of the long division of significands, five quotient bits at a
\* time: st = <<remainder, quotient so far>> with remainder < b, the divisor.
\* The digit lies between the two estimates taken from the high limbs.
DivStep(st, b) ==
    LET r == WShl(st[1], 5)
        lo == r[1] \div (b[1] + 1)
        hi == (r[1] + 1) \div b[1]
        d == CHOOSE n \in lo..hi :
                 ~WLt(r, WMulSmall(b, n)) /\ WLt(r, WMulSmall(b, n + 1))
    IN  <<WSub(r, WMulSmall(b, d)), WAdd(WShl(st[2], 5), <<0, d>>)>>

\* <<remainder, quotient>> after eleven steps from remainder r, quotient q.
LongDiv(r, q, b) ==
    LET st[i \in 0..11] == IF i = 0 THEN <<r, q>> ELSE DivStep(st[i - 1], b)
    IN  st[11]

\* x / y for y # 0.0 (Python raises ZeroDivisionError for y = 0.0; the
\* callers below do).  The quotient of the significands is taken to 55
\* fraction bits, a non-zero remainder is kept as a sticky bit, and the
\* result is rounded once.
FDiv(x, y) ==
    IF IsZero(x) THEN FZero
    ELSE LET st == IF WLt(x.man, y.man)
                   THEN LongDiv(x.man, WZero, y.man)
                   ELSE LongDiv(WSub(x.man, y.man), <<0, 1>>, y.man)
             q  == IF st[1] # WZero /\ ~WOdd(st[2])
                   THEN WAdd(st[2], <<0, 1>>) ELSE st[2]
         IN  Round((x.sign + y.sign) % 2, q, x.exp - y.exp - 55)

FNeg(x) == IF IsZero(x) THEN x ELSE [x EXCEPT !.sign = 1 - x.sign]

\* |x| < |y|
MagLt(x, y) ==
    IF IsZero(y) THEN FALSE
    ELSE IF IsZero(x) THEN TRUE
    ELSE x.exp < y.exp \/ (x.exp = y.exp /\ WLt(x.man, y.man))

\* x + y: the larger magnitude a and the smaller b are given three guard
\* bits, b is aligned to a with a sticky bit, and the exact sum or
\* difference is rounded once.
FAdd(x, y) ==
    IF IsZero(x) THEN y
    ELSE IF IsZero(y) THEN x
    ELSE LET a  == IF MagLt(x, y) THEN y ELSE x
             b  == IF MagLt(x, y) THEN x ELSE y
             wa == WShl(a.man, 3)
             wb == WShrJam(WShl(b.man, 3), a.exp - b.exp)
         IN  IF a.sign = b.sign
             THEN Round(a.sign, WAdd(wa, wb), a.exp - 3)
             ELSE Round(a.sign, WSub(wa, wb), a.exp - 3)

FSub(x, y) == FAdd(x, FNeg(y))

\* x * n for a small int n (Python converts n to float first, exactly):
\* the exact product, rounded.
FMulInt(x, n) ==
    IF IsZero(x) \/ n = 0 THEN FZero
    ELSE Round(x.sign, WMulSmall(x.man, n), x.exp)

FLt(x, y) ==
    IF x.sign = 1 /\ y.sign = 1 THEN MagLt(y, x)
    ELSE IF x.sign = 1 THEN TRUE
    ELSE IF y.sign = 1 THEN FALSE
    ELSE MagLt(x, y)

FLe(x, y) == ~FLt(y, x)

\* A decimal literal n / 10^k (42.3322 is 423322 / 10^4): the nearest float.
FromDecimal(n, k) == FDiv(FromInt(n), FromInt(10^k))

\* The next float above a positive float x.
NextUp(x) ==
    LET m == WAdd(x.man, <<0, 1>>)
    IN  IF WLen(m) > Precision
        THEN [x EXCEPT !.man = WHalf(m), !.exp = x.exp + 1]
        ELSE [x EXCEPT !.man = m]

\* f'{x:.<d>f}': the decimal with d digits after the point nearest to the
\* exact value of x (ties to even), returned as the signed integer
\* round(x * 10^d).  d is 1 or 2 in the cells modelled.
Format(x, d) ==
    IF IsZero(x) THEN 0
    ELSE LET p == WMulSmall(x.man, 10^d)
             k == 0 - x.exp
             n == IF k <= 0 THEN WToInt(WShl(p, 0 - k))
                  ELSE IF k > 60 THEN 0
                  ELSE WToInt(WShr(p, k)) + (IF RoundsUp(p, k) THEN 1 ELSE 0)
         IN  IF x.sign = 1 THEN 0 - n ELSE n

\* ------------------------------------------------------------------------
\* The data block, lines 15-68: every literal as written, an integer over a
\* power of ten.  Times and throughputs have four decimals, costs eight.
\* ------------------------------------------------------------------------
Configs == <<"baseline", "1t", "2t", "4t", "8t">>

Optimized == {"1t", "2t", "4t", "8t"}

Metrics == {"time", "cost", "throughput"}

\* Positions of the 1 GB, 2 GB and 4 GB entries in every list.
Sizes == 1..3

Decimals(m) == IF m = "cost" THEN 8 ELSE 4

Digits ==
    [c \in {Configs[i] : i \in DOMAIN Configs} |->
        CASE c = "baseline" ->
               [time |-> <<423322, 871689, 1809564>>,
                cost |-> <<117589, 121068, 125664>>,
                throughput |-> <<236, 229, 221>>]
          [] c = "1t" ->
               [time |-> <<235175, 492152, 1030593>>,
                cost |-> <<65327, 68354, 71569>>,
                throughput |-> <<425, 406, 388>>]
          [] c = "2t" ->
               [time |-> <<133410, 269396, 564735>>,
                cost |-> <<37058, 37416, 39218>>,
                throughput |-> <<750, 742, 708>>]
          [] c = "4t" ->
               [time |-> <<76848, 193038, 401050>>,
                cost |-> <<21347, 26811, 27851>>,
                throughput |-> <<1301, 1036, 997>>]
          [] c = "8t" ->
               [time |-> <<78883, 137052, 285950>>,
                cost |-> <<21912, 19035, 19858>>,
                throughput |-> <<1268, 1459, 1399>>]]

\* The table of floats the interpreter holds once lines 15-68 have run.
Literal ==
    [c \in DOMAIN Digits |->
        [m \in Metrics |->
            [d \in Sizes |-> FromDecimal(Digits[c][m][d], Decimals(m))]]]

\* ------------------------------------------------------------------------
\* Inputs.  The data block is the one part of the script meant to be
\* replaced ("DATA FROM YOUR RESULTS", line 12).  A run starts from the
\* table as committed, or from that table with one time or cost entry
\* rewritten: to 0, to the value another configuration has for the same
\* size, or to one of the next MaxUlps floats above such a value.
\* ------------------------------------------------------------------------
MaxUlps == 1

RECURSIVE Ulps(_, _)
Ulps(x, k) == IF k = 0 THEN x ELSE NextUp(Ulps(x, k - 1))

EditValues(c, m, d) ==
    {FZero} \cup
    {Ulps(Literal[o][m][d], k) : o \in DOMAIN Literal \ {c}, k \in 0..MaxUlps}

Inputs ==
    {Literal} \cup
    UNION {{[Literal EXCEPT ![c][m][d] = v] : v \in EditValues(c, m, d)} :
           c \in DOMAIN Literal, m \in {"time", "cost"}, d \in Sizes}

\* ------------------------------------------------------------------------
\* The expressions of the script.
\* ------------------------------------------------------------------------
\* What a division by 0.0 evaluates to: Python raises.
Raised == [error |-> "ZeroDivisionError"]

IsRaised(v) == "error" \in DOMAIN v

Raises(list) == \E i \in DOMAIN list : IsRaised(list[i])

\* Variant of SpeedupExpr for sensitivity runs: t / b.
SpeedupExprInverted(b, t) == IF IsZero(b) THEN Raised ELSE FDiv(t, b)

\* b / t, lines 151-156 and 352-357
SpeedupExpr(b, t) == IF IsZero(t) THEN Raised ELSE FDiv(b, t)

\* Variant of SavingsExpr for sensitivity runs: c / b * 100, the cost
\* remaining instead of the cost saved.
SavingsExprRemaining(b, c) ==
    IF IsZero(b) THEN Raised ELSE FMulInt(FDiv(c, b), 100)

\* (b - c) / b * 100, lines 218-223
SavingsExpr(b, c) ==
    IF IsZero(b) THEN Raised ELSE FMulInt(FDiv(FSub(b, c), b), 100)

\* An f-string field f'{value:.<digits>f}<suffix>', kept as its parts.
Field(value, digits, suffix) ==
    [value |-> value, digits |-> digits, suffix |-> suffix]

\* The number a field shows, in units of 10^-digits (digits = 1 or 2).
Shown(field) == Format(field.value, field.digits)

\* One bar group or line of a panel.
Series(label, ys) == [label |-> label, ys |-> ys]

\* A panel: its title, its kind, the x positions shared by its series, the
\* series, the horizontal reference lines and (for the table) the cells.
Panel(title, kind, xs, series, hlines, cells) ==
    [title |-> title, kind |-> kind, xs |-> xs, series |-> series,
     hlines |-> hlines, cells |-> cells]

VARIABLES
    pc,              \* the statement group about to run
    meas,            \* the module-level measurement constants, lines 15-68
    env,             \* the other module-level names assigned so far
    fig_comparison,  \* panels drawn on the 6-panel figure, in order
    fig_detailed,    \* panels drawn on the 4-panel figure, in order
    files,           \* image files written, in order
    out,             \* lines printed, in order
    err,             \* the exception that ended the run, or "none"
    trace            \* the statement groups that have run to completion

vars == <<pc, meas, env, fig_comparison, fig_detailed, files, out, err, trace>>

NoData == [c \in {} |-> 0]

Init ==
    /\ pc = "load"
    /\ meas = NoData
    /\ env = [n \in {} |-> 0]
    /\ fig_comparison = <<>>
    /\ fig_detailed = <<>>
    /\ files = <<>>
    /\ out = <<>>
    /\ err = "none"
    /\ trace = <<>>

\* The scalar the script names <config>_<size>_<metric>.
V(c, m, d) == meas[c][m][d]

\* [x_1gb, x_2gb, x_4gb]
List3(c, m) == <<V(c, m, 1), V(c, m, 2), V(c, m, 3)>>

Bind(e, name, value) == (name :> value) @@ e

\* The statement group `step` ran to its end; `next` is the one after it.
Done(step, next) ==
    /\ pc' = next
    /\ trace' = Append(trace, step)
    /\ err' = err

\* An uncaught exception: the interpreter prints a traceback and exits.
Fail(exception) ==
    /\ pc' = "failed"
    /\ err' = exception
    /\ UNCHANGED <<meas, env, fig_comparison, fig_detailed, files, out, trace>>

\* Axes just added to a figure by plt.subplot, nothing drawn on them yet.
Axes == Panel("", "empty", <<>>, <<>>, <<>>, <<>>)

\* The figure with its last axes drawn as `panel`.
DrawLast(fig, panel) == [fig EXCEPT ![Len(fig)] = panel]

\* lines 15-68: the measurement constants are bound
LoadConstants ==
    /\ pc = "load"
    /\ \E input \in Inputs : meas' = input
    /\ Done("LoadConstants", "time_bars")
    /\ UNCHANGED <<env, fig_comparison, fig_detailed, files, out>>

\* lines 74-112: the comparison figure is created and its first panel drawn
RenderTimeBars ==
    /\ pc = "time_bars"
    /\ LET datasets       == <<"1 GB", "2 GB", "4 GB">>
           baseline_times == List3("baseline", "time")
           opt_4t_times   == List3("4t", "time")
           opt_8t_times   == List3("8t", "time")
       IN  /\ env' = Bind(Bind(Bind(Bind(env,
                         "datasets", datasets),
                         "baseline_times", baseline_times),
                         "opt_4t_times", opt_4t_times),
                         "opt_8t_times", opt_8t_times)
           /\ fig_comparison' = <<
                 Panel("Execution Time Comparison", "bar", datasets,
                       <<Series("Baseline (Original)", baseline_times),
                         Series("Optimized (4 Threads)", opt_4t_times),
                         Series("Optimized (8 Threads)", opt_8t_times)>>,
                       <<>>, <<>>)>>
    /\ Done("RenderTimeBars", "throughput_bars")
    /\ UNCHANGED <<meas, fig_detailed, files, out>>

\* lines 117-144
RenderThroughputBars ==
    /\ pc = "throughput_bars"
    /\ LET baseline_throughputs == List3("baseline", "throughput")
           opt_4t_throughputs   == List3("4t", "throughput")
           opt_8t_throughputs   == List3("8t", "throughput")
       IN  /\ env' = Bind(Bind(Bind(env,
                         "baseline_throughputs", baseline_throughputs),
                         "opt_4t_throughputs", opt_4t_throughputs),
                         "opt_8t_throughputs", opt_8t_throughputs)
           /\ fig_comparison' = Append(fig_comparison,
                 Panel("Throughput Comparison", "bar", env["datasets"],
                       <<Series("Baseline (Original)", baseline_throughputs),
                         Series("Optimized (4 Threads)", opt_4t_throughputs),
                         Series("Optimized (8 Threads)", opt_8t_throughputs)>>,
                       <<>>, <<>>))
    /\ Done("RenderThroughputBars", "speedup_4t")
    /\ UNCHANGED <<meas, fig_detailed, files, out>>

\* The list `value` is evaluated and assigned to `name`; a division by
\* zero in it raises instead, and ends the run.
AssignList(name, value, step, next) ==
    IF Raises(value)
    THEN /\ pc' = "failed"
         /\ err' = Raised.error
         /\ UNCHANGED <<env, trace>>
    ELSE /\ env' = Bind(env, name, value)
         /\ Done(step, next)

\* Variant of speedup_4t for sensitivity runs: the 1 GB entry divides by the
\* 8-thread time.
speedup_4t_by_8t ==
    <<SpeedupExpr(V("baseline", "time", 1), V("8t", "time", 1)),
      SpeedupExpr(V("baseline", "time", 2), V("4t", "time", 2)),
      SpeedupExpr(V("baseline", "time", 3), V("4t", "time", 3))>>

\* lines 151-153
speedup_4t ==
    <<SpeedupExpr(V("baseline", "time", 1), V("4t", "time", 1)),
      SpeedupExpr(V("baseline", "time", 2), V("4t", "time", 2)),
      SpeedupExpr(V("baseline", "time", 3), V("4t", "time", 3))>>

\* line 149 (the subplot) and the assignment of speedup_4t
ComputeSpeedup4t ==
    /\ pc = "speedup_4t"
    /\ fig_comparison' = Append(fig_comparison, Axes)
    /\ UNCHANGED <<meas, fig_detailed, files, out>>
    /\ AssignList("speedup_4t", speedup_4t, "ComputeSpeedup4t", "speedup_8t")

\* Variant of speedup_8t for sensitivity runs: the 2 GB entry divides the
\* 1 GB baseline time.
speedup_8t_mixed ==
    <<SpeedupExpr(V("baseline", "time", 1), V("8t", "time", 1)),
      SpeedupExpr(V("baseline", "time", 1), V("8t", "time", 2)),
      SpeedupExpr(V("baseline", "time", 3), V("8t", "time", 3))>>

\* lines 154-156
speedup_8t ==
    <<SpeedupExpr(V("baseline", "time", 1), V("8t", "time", 1)),
      SpeedupExpr(V("baseline", "time", 2), V("8t", "time", 2)),
      SpeedupExpr(V("baseline", "time", 3), V("8t", "time", 3))>>

\* the assignment of speedup_8t
ComputeSpeedup8t ==
    /\ pc = "speedup_8t"
    /\ UNCHANGED <<meas, fig_comparison, fig_detailed, files, out>>
    /\ AssignList("speedup_8t", speedup_8t, "ComputeSpeedup8t", "speedup_bars")

\* lines 158-179
RenderSpeedupBars ==
    /\ pc = "speedup_bars"
    /\ fig_comparison' = DrawLast(fig_comparison,
          Panel("Speedup Factor", "bar", env["datasets"],
                <<Series("Optimized (4 Threads)", env["speedup_4t"]),
                  Series("Optimized (8 Threads)", env["speedup_8t"])>>,
                <<[y |-> FromInt(1), label |-> "Baseline (1.0x)"]>>, <<>>))
    /\ Done("RenderSpeedupBars", "cost_bars")
    /\ UNCHANGED <<meas, env, fig_detailed, files, out>>

\* lines 184-211
RenderCostBars ==
    /\ pc = "cost_bars"
    /\ LET baseline_costs == List3("baseline", "cost")
           opt_4t_costs   == List3("4t", "cost")
           opt_8t_costs   == List3("8t", "cost")
       IN  /\ env' = Bind(Bind(Bind(env,
                         "baseline_costs", baseline_costs),
                         "opt_4t_costs", opt_4t_costs),
                         "opt_8t_costs", opt_8t_costs)
           /\ fig_comparison' = Append(fig_comparison,
                 Panel("Cost Efficiency Comparison", "bar", env["datasets"],
                       <<Series("Baseline (Original)", baseline_costs),
                         Series("Optimized (4 Threads)", opt_4t_costs),
                         Series("Optimized (8 Threads)", opt_8t_costs)>>,
                       <<>>, <<>>))
    /\ Done("RenderCostBars", "savings_4t")
    /\ UNCHANGED <<meas, fig_detailed, files, out>>

\* lines 218-220
savings_4t ==
    <<SavingsExpr(V("baseline", "cost", 1), V("4t", "cost", 1)),
      SavingsExpr(V("baseline", "cost", 2), V("4t", "cost", 2)),
      SavingsExpr(V("baseline", "cost", 3), V("4t", "cost", 3))>>

\* line 216 (the subplot) and the assignment of savings_4t
ComputeSavings4t ==
    /\ pc = "savings_4t"
    /\ fig_comparison' = Append(fig_comparison, Axes)
    /\ UNCHANGED <<meas, fig_detailed, files, out>>
    /\ AssignList("savings_4t", savings_4t, "ComputeSavings4t", "savings_8t")

\* Variant of savings_8t for sensitivity runs: the 1 GB entry takes the
\* 4-thread cost.
savings_8t_of_4t ==
    <<SavingsExpr(V("baseline", "cost", 1), V("4t", "cost", 1)),
      SavingsExpr(V("baseline", "cost", 2), V("8t", "cost", 2)),
      SavingsExpr(V("baseline", "cost", 3), V("8t", "cost", 3))>>

\* lines 221-223
savings_8t ==
    <<SavingsExpr(V("baseline", "cost", 1), V("8t", "cost", 1)),
      SavingsExpr(V("baseline", "cost", 2), V("8t", "cost", 2)),
      SavingsExpr(V("baseline", "cost", 3), V("8t", "cost", 3))>>

\* the assignment of savings_8t
ComputeSavings8t ==
    /\ pc = "savings_8t"
    /\ UNCHANGED <<meas, fig_comparison, fig_detailed, files, out>>
    /\ AssignList("savings_8t", savings_8t, "ComputeSavings8t", "savings_bars")

\* A text drawn at height y.
Text(y, field) == [y |-> y, field |-> field]

\* Variant of savings_labels for sensitivity runs: the labels are put 15
\* above the bar tops instead of 1.5.
savings_labels_far ==
    [i \in Sizes |->
        <<Text(FAdd(env["savings_4t"][i], FromInt(15)),
               Field(env["savings_4t"][i], 1, "%")),
          Text(FAdd(env["savings_8t"][i], FromInt(15)),
               Field(env["savings_8t"][i], 1, "%"))>>]

\* lines 229-234: the value labels, one pair (4 threads, 8 threads) per
\* dataset size, each 1.5 above the top of its bar.
savings_labels ==
    [i \in Sizes |->
        <<Text(FAdd(env["savings_4t"][i], FromDecimal(15, 1)),
               Field(env["savings_4t"][i], 1, "%")),
          Text(FAdd(env["savings_8t"][i], FromDecimal(15, 1)),
               Field(env["savings_8t"][i], 1, "%"))>>]

\* lines 225-243: the bars, their value labels and the fixed y-range
\* (line 243, ax5.set_ylim(0, 90)), which only this panel records.
RenderSavingsBars ==
    /\ pc = "savings_bars"
    /\ fig_comparison' = DrawLast(fig_comparison,
          [texts |-> savings_labels, ylim |-> <<FromInt(0), FromInt(90)>>] @@
          Panel("Cost Reduction vs Baseline", "bar", env["datasets"],
                <<Series("Optimized (4 Threads)", env["savings_4t"]),
                  Series("Optimized (8 Threads)", env["savings_8t"])>>,
                <<>>, <<>>))
    /\ Done("RenderSavingsBars", "summary_table")
    /\ UNCHANGED <<meas, env, fig_detailed, files, out>>

\* Variant of best_gain for sensitivity runs: every row shows the gain of
\* the other of the two configurations of the table.
best_gain_other ==
    <<Field(env["speedup_8t"][1], 2, "x"),
      Field(env["speedup_4t"][3], 2, "x"),
      Field(env["savings_8t"][1], 1, "%"),
      Field(SpeedupExpr(V("8t", "throughput", 1),
                        V("baseline", "throughput", 1)), 2, "x")>>

\* The 'Best Gain' cells of the table's rows, lines 255, 257, 259 and 261.
best_gain ==
    <<Field(env["speedup_4t"][1], 2, "x"),
      Field(env["speedup_8t"][3], 2, "x"),
      Field(env["savings_4t"][1], 1, "%"),
      Field(SpeedupExpr(V("4t", "throughput", 1),
                        V("baseline", "throughput", 1)), 2, "x")>>

\* lines 248-283: the summary table.  Each row is the metric's name, the
\* baseline, 4-thread and 8-thread cells and the 'Best Gain' cell.
comparison_data ==
    <<<<"Time (1GB)",
        Field(V("baseline", "time", 1), 2, "s"),
        Field(V("4t", "time", 1), 2, "s"),
        Field(V("8t", "time", 1), 2, "s"),
        best_gain[1]>>,
      <<"Time (4GB)",
        Field(V("baseline", "time", 3), 2, "s"),
        Field(V("4t", "time", 3), 2, "s"),
        Field(V("8t", "time", 3), 2, "s"),
        best_gain[2]>>,
      <<"Cost/GB (1GB)",
        Field(V("baseline", "cost", 1), 6, ""),
        Field(V("4t", "cost", 1), 6, ""),
        Field(V("8t", "cost", 1), 6, ""),
        best_gain[3]>>,
      <<"Throughput (1GB)",
        Field(V("baseline", "throughput", 1), 4, ""),
        Field(V("4t", "throughput", 1), 4, ""),
        Field(V("8t", "throughput", 1), 4, ""),
        best_gain[4]>>>>

RenderSummaryTable ==
    /\ pc = "summary_table"
    /\ UNCHANGED <<meas, fig_detailed, files, out>>
    /\ IF IsRaised(comparison_data[4][5].value)
       THEN /\ fig_comparison' = Append(fig_comparison, Axes)
            /\ pc' = "failed"
            /\ err' = Raised.error
            /\ UNCHANGED <<env, trace>>
       ELSE /\ env' = Bind(env, "comparison_data", comparison_data)
            /\ fig_comparison' = Append(fig_comparison,
                  Panel("Performance Comparison Summary", "table", <<>>, <<>>,
                        <<>>, comparison_data))
            /\ Done("RenderSummaryTable", "save_comparison")

ComparisonPath == "/mnt/user-data/outputs/baseline_vs_optimized_comparison.png"

DetailedPath == "/mnt/user-data/outputs/detailed_performance_comparison.png"

\* lines 285-287: plt.savefig writes the current figure, or raises an
\* OSError when the path cannot be written.
SaveComparison ==
    /\ pc = "save_comparison"
    /\ \E writable \in BOOLEAN :
          IF writable
          THEN /\ files' = Append(files, [path |-> ComparisonPath,
                                          image |-> fig_comparison])
               /\ Done("SaveComparison", "print_comparison")
               /\ UNCHANGED <<meas, env, fig_comparison, fig_detailed, out>>
          ELSE Fail("OSError")

\* Variant of PrintComparisonSaved for sensitivity runs: the script goes on
\* with the speedup panel of the detailed figure, leaving out its first two
\* panels.
PrintComparisonSavedSkipping ==
    /\ pc = "print_comparison"
    /\ out' = Append(out, "NEW Graph saved: baseline_vs_optimized_comparison.png")
    /\ Done("PrintComparisonSaved", "speedup_1t")
    /\ UNCHANGED <<meas, env, fig_comparison, fig_detailed, files>>

\* line 288
PrintComparisonSaved ==
    /\ pc = "print_comparison"
    /\ out' = Append(out, "NEW Graph saved: baseline_vs_optimized_comparison.png")
    /\ Done("PrintComparisonSaved", "time_lines")
    /\ UNCHANGED <<meas, env, fig_comparison, fig_detailed, files>>

\* lines 294-321: the detailed figure is created and its first panel drawn
RenderTimeLines ==
    /\ pc = "time_lines"
    /\ LET dataset_sizes_numeric == <<1, 2, 4>>
       IN  /\ env' = Bind(env, "dataset_sizes_numeric", dataset_sizes_numeric)
           /\ fig_detailed' = <<
                 Panel("Execution Time Scaling", "line", dataset_sizes_numeric,
                       <<Series("Baseline (Original)", env["baseline_times"]),
                         Series("Optimized (1T)", List3("1t", "time")),
                         Series("Optimized (2T)", List3("2t", "time")),
                         Series("Optimized (4T)", env["opt_4t_times"]),
                         Series("Optimized (8T)", env["opt_8t_times"])>>,
                       <<>>, <<>>)>>
    /\ Done("RenderTimeLines", "throughput_lines")
    /\ UNCHANGED <<meas, fig_comparison, files, out>>

\* lines 326-345
RenderThroughputLines ==
    /\ pc = "throughput_lines"
    /\ fig_detailed' = Append(fig_detailed,
          Panel("Throughput Scaling", "line", env["dataset_sizes_numeric"],
                <<Series("Baseline (Original)", env["baseline_throughputs"]),
                  Series("Optimized (1T)", List3("1t", "throughput")),
                  Series("Optimized (2T)", List3("2t", "throughput")),
                  Series("Optimized (4T)", env["opt_4t_throughputs"]),
                  Series("Optimized (8T)", env["opt_8t_throughputs"])>>,
                <<>>, <<>>))
    /\ Done("RenderThroughputLines", "speedup_1t")
    /\ UNCHANGED <<meas, env, fig_comparison, files, out>>

\* lines 352-354
speedup_1t ==
    <<SpeedupExpr(V("baseline", "time", 1), V("1t", "time", 1)),
      SpeedupExpr(V("baseline", "time", 2), V("1t", "time", 2)),
      SpeedupExpr(V("baseline", "time", 3), V("1t", "time", 3))>>

\* line 350 (the subplot) and the assignment of speedup_1t
ComputeSpeedup1t ==
    /\ pc = "speedup_1t"
    /\ fig_detailed' = Append(fig_detailed, Axes)
    /\ UNCHANGED <<meas, fig_comparison, files, out>>
    /\ AssignList("speedup_1t", speedup_1t, "ComputeSpeedup1t", "speedup_2t")

\* lines 355-357
speedup_2t ==
    <<SpeedupExpr(V("baseline", "time", 1), V("2t", "time", 1)),
      SpeedupExpr(V("baseline", "time", 2), V("2t", "time", 2)),
      SpeedupExpr(V("baseline", "time", 3), V("2t", "time", 3))>>

\* the assignment of speedup_2t
ComputeSpeedup2t ==
    /\ pc = "speedup_2t"
    /\ UNCHANGED <<meas, fig_comparison, fig_detailed, files, out>>
    /\ AssignList("speedup_2t", speedup_2t, "ComputeSpeedup2t", "speedup_lines")

\* Variant of RenderSpeedupLines for sensitivity runs: only the 4-thread and
\* 8-thread lines are drawn, as on the comparison figure.
RenderSpeedupLinesTwo ==
    /\ pc = "speedup_lines"
    /\ fig_detailed' = DrawLast(fig_detailed,
          Panel("Speedup Factor Across Dataset Sizes", "line",
                env["dataset_sizes_numeric"],
                <<Series("Optimized (4T)", env["speedup_4t"]),
                  Series("Optimized (8T)", env["speedup_8t"])>>,
                <<[y |-> FromInt(1), label |-> "Baseline (1.0x)"]>>, <<>>))
    /\ Done("RenderSpeedupLines", "cost_lines")
    /\ UNCHANGED <<meas, env, fig_comparison, files, out>>

\* lines 359-382
RenderSpeedupLines ==
    /\ pc = "speedup_lines"
    /\ fig_detailed' = DrawLast(fig_detailed,
          Panel("Speedup Factor Across Dataset Sizes", "line",
                env["dataset_sizes_numeric"],
                <<Series("Optimized (1T)", env["speedup_1t"]),
                  Series("Optimized (2T)", env["speedup_2t"]),
                  Series("Optimized (4T)", env["speedup_4t"]),
                  Series("Optimized (8T)", env["speedup_8t"])>>,
                <<[y |-> FromInt(1), label |-> "Baseline (1.0x)"]>>, <<>>))
    /\ Done("RenderSpeedupLines", "cost_lines")
    /\ UNCHANGED <<meas, env, fig_comparison, files, out>>

\* lines 387-409
RenderCostLines ==
    /\ pc = "cost_lines"
    /\ LET cost_1t == List3("1t", "cost")
           cost_2t == List3("2t", "cost")
       IN  /\ env' = Bind(Bind(env, "cost_1t", cost_1t), "cost_2t", cost_2t)
           /\ fig_detailed' = Append(fig_detailed,
                 Panel("Cost Efficiency Across Dataset Sizes", "line",
                       env["dataset_sizes_numeric"],
                       <<Series("Baseline (Original)", env["baseline_costs"]),
                         Series("Optimized (1T)", cost_1t),
                         Series("Optimized (2T)", cost_2t),
                         Series("Optimized (4T)", env["opt_4t_costs"]),
                         Series("Optimized (8T)", env["opt_8t_costs"])>>,
                       <<>>, <<>>))
    /\ Done("RenderCostLines", "save_detailed")
    /\ UNCHANGED <<meas, fig_comparison, files, out>>

\* Variant of SaveDetailed for sensitivity runs: a failed write is caught
\* and the script carries on.
SaveDetailedSwallowed ==
    /\ pc = "save_detailed"
    /\ \E writable \in BOOLEAN :
          /\ files' = IF writable
                      THEN Append(files, [path |-> DetailedPath,
                                          image |-> fig_detailed])
                      ELSE files
          /\ Done("SaveDetailed", "print_detailed")
          /\ UNCHANGED <<meas, env, fig_comparison, fig_detailed, out>>

\* lines 411-413
SaveDetailed ==
    /\ pc = "save_detailed"
    /\ \E writable \in BOOLEAN :
          IF writable
          THEN /\ files' = Append(files, [path |-> DetailedPath,
                                          image |-> fig_detailed])
               /\ Done("SaveDetailed", "print_detailed")
               /\ UNCHANGED <<meas, env, fig_comparison, fig_detailed, out>>
          ELSE Fail("OSError")

\* line 414
PrintDetailedSaved ==
    /\ pc = "print_detailed"
    /\ out' = Append(out, "NEW Graph saved: detailed_performance_comparison.png")
    /\ Done("PrintDetailedSaved", "print_summary")
    /\ UNCHANGED <<meas, env, fig_comparison, fig_detailed, files>>

\* lines 416-423
PrintSummary ==
    /\ pc = "print_summary"
    /\ out' = Append(out, "ALL COMPARISON GRAPHS GENERATED SUCCESSFULLY!")
    /\ Done("PrintSummary", "done")
    /\ UNCHANGED <<meas, env, fig_comparison, fig_detailed, files>>

Next ==
    \/ LoadConstants
    \/ RenderTimeBars
    \/ RenderThroughputBars
    \/ ComputeSpeedup4t
    \/ ComputeSpeedup8t
    \/ RenderSpeedupBars
    \/ RenderCostBars
    \/ ComputeSavings4t
    \/ ComputeSavings8t
    \/ RenderSavingsBars
    \/ RenderSummaryTable
    \/ SaveComparison
    \/ PrintComparisonSaved
    \/ RenderTimeLines
    \/ RenderThroughputLines
    \/ ComputeSpeedup1t
    \/ ComputeSpeedup2t
    \/ RenderSpeedupLines
    \/ RenderCostLines
    \/ SaveDetailed
    \/ PrintDetailedSaved
    \/ PrintSummary

Spec == Init /\ [][Next]_vars
\* ------------------------------------------------------------------------
\* Vocabulary of the properties.
\* ------------------------------------------------------------------------
ComputeSteps ==
    {"ComputeSpeedup4t", "ComputeSpeedup8t", "ComputeSavings4t",
     "ComputeSavings8t", "ComputeSpeedup1t", "ComputeSpeedup2t"}

Figure1Steps ==
    {"RenderTimeBars", "RenderThroughputBars", "RenderSpeedupBars",
     "RenderCostBars", "RenderSavingsBars", "RenderSummaryTable",
     "SaveComparison"}

\* The statement groups in the order of the source text.
ProgramOrder ==
    <<"LoadConstants",
      "RenderTimeBars", "RenderThroughputBars",
      "ComputeSpeedup4t", "ComputeSpeedup8t", "RenderSpeedupBars",
      "RenderCostBars",
      "ComputeSavings4t", "ComputeSavings8t", "RenderSavingsBars",
      "RenderSummaryTable",
      "SaveComparison", "PrintComparisonSaved",
      "RenderTimeLines", "RenderThroughputLines",
      "ComputeSpeedup1t", "ComputeSpeedup2t", "RenderSpeedupLines",
      "RenderCostLines",
      "SaveDetailed", "PrintDetailedSaved", "PrintSummary">>

Ended == pc \in {"done", "failed"}

Positive(x) == FLt(FZero, x)

SpeedupName(c) == "speedup_" \o c

SavingsName(c) == "savings_" \o c

PathsWritten == [i \in DOMAIN files |-> files[i].path]

\* C1 as claimed: every derived value is computed before figure 1 is
\* rendered or written, i.e. no statement that computes a speedup or
\* savings list runs after a statement that draws on or writes figure 1.
C1_AsClaimed ==
    \A i, j \in DOMAIN trace :
        (trace[i] \in Figure1Steps /\ trace[j] \in ComputeSteps) => j < i

\* C1, amended: the run is one straight sequence, each statement group done
\* at most once and in the order of the source text, in which the derived
\* lists are computed between the panels (the 4T/8T speedups after panels 1
\* and 2, the savings after panel 4, the 1T/2T speedups after figure 1's
\* file is written); a completed run has done every group exactly once.
C1_StraightSequence ==
    /\ Len(trace) <= Len(ProgramOrder)
    /\ trace = SubSeq(ProgramOrder, 1, Len(trace))
    /\ (pc = "done" <=> trace = ProgramOrder)
    /\ ("speedup_1t" \in DOMAIN env =>
            \E i \in DOMAIN trace : trace[i] = "SaveComparison")

C1_Witness ==
    /\ pc = "done"
    /\ Len(files) = 2
    /\ "speedup_2t" \in DOMAIN env

\* The measurement set has an entry whose time or cost is not positive.
HasNonPositive ==
    \E c \in DOMAIN meas, m \in {"time", "cost"}, d \in Sizes :
        ~Positive(meas[c][m][d])

\* C2 as claimed: with a zero (non-positive) time or cost in the data the
\* run ends in InvalidMeasurement before any panel is drawn or file written,
\* and no division by zero is ever evaluated.
C2_AsClaimed ==
    HasNonPositive =>
        /\ fig_comparison = <<>>
        /\ fig_detailed = <<>>
        /\ files = <<>>
        /\ err # "ZeroDivisionError"
        /\ pc # "done"
        /\ (pc = "failed" => err = "InvalidMeasurement")

C3_Outcomes ==
    /\ pc = "done" =>
          /\ err = "none"
          /\ PathsWritten = <<ComparisonPath, DetailedPath>>
    /\ pc = "failed" <=> err # "none"
    /\ (err = "OSError" /\ files = <<>>) =>
          /\ trace[Len(trace)] = "RenderSummaryTable"
          /\ fig_detailed = <<>>
          /\ out = <<>>
    /\ (err = "OSError" /\ files # <<>>) =>
          /\ trace[Len(trace)] = "RenderCostLines"
          /\ PathsWritten = <<ComparisonPath>>
          /\ Len(out) = 1
    /\ (\E i \in DOMAIN out :
            out[i] = "ALL COMPARISON GRAPHS GENERATED SUCCESSFULLY!") =>
          PathsWritten = <<ComparisonPath, DetailedPath>>

\* C3: a run ends either completed, with both files written, or failed; a
\* failed write ends the run on the spot (no statement runs once the run
\* has ended, so the write is not tried again and nothing later is done),
\* and the final status line is printed only after both files were written.
C3_FatalWrite == []C3_Outcomes /\ [][~Ended]_vars

C3_Witness ==
    /\ pc = "failed"
    /\ err = "OSError"
    /\ Len(files) = 1

\* The derived lists as functions of the measurements of one dataset size.
SpeedupOf(c, d) == FDiv(V("baseline", "time", d), V(c, "time", d))

SavingsOf(c, d) ==
    FMulInt(FDiv(FSub(V("baseline", "cost", d), V(c, "cost", d)),
                 V("baseline", "cost", d)), 100)

SpeedupsDone == \A c \in Optimized : SpeedupName(c) \in DOMAIN env

C4_Derived ==
    /\ \A c \in Optimized :
           SpeedupName(c) \in DOMAIN env =>
               env[SpeedupName(c)] = [d \in Sizes |-> SpeedupOf(c, d)]
    /\ \A c \in {"4t", "8t"} :
           SavingsName(c) \in DOMAIN env =>
               env[SavingsName(c)] = [d \in Sizes |-> SavingsOf(c, d)]
    /\ \A c \in {"1t", "2t"} : SavingsName(c) \notin DOMAIN env

\* C4: every speedup list (1T, 2T, 4T, 8T) holds, per dataset size, the
\* baseline time of that size divided by the configuration's time of that
\* size, and every savings list (4T, 8T only) holds (baseline cost - cost) /
\* baseline cost * 100 of that size; once loaded, no measurement changes.
C4_PureDerivation == []C4_Derived /\ [][pc # "load" => meas' = meas]_vars

C4_Witness ==
    /\ pc = "done"
    /\ SpeedupsDone
    /\ "savings_8t" \in DOMAIN env
    /\ meas # Literal

TrendDrawn == Len(fig_detailed) = 4 /\ fig_detailed[4].kind = "line"

ConfigLabels ==
    <<"Baseline (Original)", "Optimized (1T)", "Optimized (2T)",
      "Optimized (4T)", "Optimized (8T)">>

\* What each panel of the trend figure plots, in subplot order.
TrendMetric == <<"time", "throughput", "speedup", "cost">>

Labels(panel) == [i \in DOMAIN panel.series |-> panel.series[i].label]

ThreePoints(panel) ==
    /\ panel.kind = "line"
    /\ panel.xs = <<1, 2, 4>>
    /\ \A i \in DOMAIN panel.series : Len(panel.series[i].ys) = 3

\* C5 as claimed: each of the four panels of the trend figure has exactly
\* one line per configuration, all five of them (baseline, 1T, 2T, 4T, 8T),
\* with 3 points at x = 1, 2, 4.
C5_AsClaimed ==
    TrendDrawn =>
        \A p \in 1..4 :
            /\ ThreePoints(fig_detailed[p])
            /\ Labels(fig_detailed[p]) = ConfigLabels

\* C5, amended: the time, throughput and cost panels of the trend figure
\* have one line per configuration, all five, holding that configuration's
\* three measurements; the speedup panel has one line for each of 1T, 2T,
\* 4T and 8T holding its speedups, and shows the baseline as a horizontal
\* reference line at 1.0 instead; every line has 3 points at x = 1, 2, 4.
C5_TrendLines ==
    TrendDrawn =>
        /\ \A p \in 1..4 : ThreePoints(fig_detailed[p])
        /\ \A p \in {1, 2, 4} :
               /\ Labels(fig_detailed[p]) = ConfigLabels
               /\ \A i \in 1..5 :
                      fig_detailed[p].series[i].ys =
                          List3(Configs[i], TrendMetric[p])
               /\ fig_detailed[p].hlines = <<>>
        /\ Labels(fig_detailed[3]) = Tail(ConfigLabels)
        /\ \A i \in 1..4 :
               fig_detailed[3].series[i].ys =
                   [d \in Sizes |-> SpeedupOf(Configs[i + 1], d)]
        /\ fig_detailed[3].hlines =
               <<[y |-> FromInt(1), label |-> "Baseline (1.0x)"]>>

C5_Witness == TrendDrawn /\ pc = "save_detailed"

Time(c, d) == V(c, "time", d)

Cost(c, d) == V(c, "cost", d)

Speedup(c, d) == env[SpeedupName(c)][d]

\* Two configurations measured at one size, both times positive, the first
\* the faster, against a positive baseline time.
Faster(c1, c2, d) ==
    /\ Positive(Time("baseline", d))
    /\ Positive(Time(c1, d))
    /\ FLt(Time(c1, d), Time(c2, d))

LiteralTimes(d) == \A c \in DOMAIN meas : Time(c, d) = Literal[c]["time"][d]

\* C6 as claimed: against the same positive baseline time, the smaller of
\* two optimized times always has the strictly greater speedup.
C6_AsClaimed ==
    SpeedupsDone =>
        \A d \in Sizes, c1, c2 \in Optimized :
            Faster(c1, c2, d) => FLt(Speedup(c2, d), Speedup(c1, d))

\* C6, amended: against the same positive baseline time, the smaller of two
\* optimized times never has the smaller speedup (the two speedups can be
\* the same float when the times are neighbouring floats); for the times of
\* the script's data block the order by speedup is strictly the reverse of
\* the order by time at every dataset size.
C6_Monotone ==
    SpeedupsDone =>
        \A d \in Sizes, c1, c2 \in Optimized :
            Faster(c1, c2, d) =>
                /\ FLe(Speedup(c2, d), Speedup(c1, d))
                /\ LiteralTimes(d) => FLt(Speedup(c2, d), Speedup(c1, d))

C6_Witness ==
    /\ SpeedupsDone
    /\ \E d \in Sizes, c1, c2 \in Optimized :
           /\ Faster(c1, c2, d)
           /\ Speedup(c1, d) = Speedup(c2, d)
    /\ \E d \in Sizes, c1, c2 \in Optimized :
           /\ Faster(c1, c2, d)
           /\ LiteralTimes(d)

\* C7: a configuration whose (positive) time equals the baseline time of
\* the same size has speedup exactly 1.0, and one whose cost equals the
\* (positive) baseline cost of the same size has savings exactly 0.0.
C7_Identity ==
    /\ \A c \in Optimized, d \in Sizes :
           (/\ SpeedupName(c) \in DOMAIN env
            /\ Positive(Time(c, d))
            /\ Time(c, d) = Time("baseline", d)) =>
               Speedup(c, d) = FromInt(1)
    /\ \A c \in {"4t", "8t"}, d \in Sizes :
           (/\ SavingsName(c) \in DOMAIN env
            /\ Positive(Cost(c, d))
            /\ Cost(c, d) = Cost("baseline", d)) =>
               env[SavingsName(c)][d] = FZero

C7_Witness ==
    /\ pc = "done"
    /\ \E c \in Optimized, d \in Sizes :
           /\ Time(c, d) = Time("baseline", d)
           /\ Speedup(c, d) = FromInt(1)

SpeedupLow == FromDecimal(550, 2)

SpeedupHigh == FromDecimal(552, 2)

\* C8: with the 1 GB times of the data block (baseline 42.3322 s, 4 threads
\* 7.6848 s) the 4-thread 1 GB speedup lies in [5.50, 5.52].
C8_Speedup4t1GB ==
    (/\ "speedup_4t" \in DOMAIN env
     /\ Time("baseline", 1) = Literal["baseline"]["time"][1]
     /\ Time("4t", 1) = Literal["4t"]["time"][1]) =>
        /\ FLe(SpeedupLow, env["speedup_4t"][1])
        /\ FLe(env["speedup_4t"][1], SpeedupHigh)

C8_Witness ==
    /\ meas = Literal
    /\ "speedup_4t" \in DOMAIN env
    /\ Format(env["speedup_4t"][1], 2) = 551

SavingsLow == FromDecimal(8132, 2)

SavingsHigh == FromDecimal(8142, 2)

\* C9: with the 1 GB costs of the data block (baseline 0.00117589, 8 threads
\* 0.00021912) the 8-thread 1 GB cost savings lie in [81.32, 81.42] percent.
C9_Savings8t1GB ==
    (/\ "savings_8t" \in DOMAIN env
     /\ Cost("baseline", 1) = Literal["baseline"]["cost"][1]
     /\ Cost("8t", 1) = Literal["8t"]["cost"][1]) =>
        /\ FLe(SavingsLow, env["savings_8t"][1])
        /\ FLe(env["savings_8t"][1], SavingsHigh)

C9_Witness ==
    /\ meas = Literal
    /\ "savings_8t" \in DOMAIN env
    /\ Format(env["savings_8t"][1], 2) = 8137

\* The gain of configuration c in the metric of row r of the summary table:
\* speedup at 1 GB, speedup at 4 GB, cost savings at 1 GB, and throughput
\* relative to the baseline at 1 GB.
Gain(r, c) ==
    CASE r = 1 -> SpeedupOf(c, 1)
      [] r = 2 -> SpeedupOf(c, 3)
      [] r = 3 -> SavingsOf(c, 1)
      [] r = 4 -> FDiv(V(c, "throughput", 1), V("baseline", "throughput", 1))

MaxGain(r, cs) ==
    CHOOSE g \in {Gain(r, c) : c \in cs} : \A c \in cs : FLe(Gain(r, c), g)

\* The configuration whose gain each row's 'Best Gain' cell is written from.
Hardcoded == <<"4t", "8t", "4t", "4t">>

\* C10: for the data block as committed, the 'Best Gain' cell of each row of
\* the summary table holds the gain of the row's hardcoded configuration
\* (4T, 8T, 4T, 4T), and that gain is the maximum over 4T and 8T and also
\* over all four optimized configurations.
C10_BestGain ==
    (meas = Literal /\ "comparison_data" \in DOMAIN env) =>
        \A r \in 1..4 :
            LET cell == env["comparison_data"][r][5]
            IN  /\ cell.value = Gain(r, Hardcoded[r])
                /\ cell.value = MaxGain(r, {"4t", "8t"})
                /\ cell.value = MaxGain(r, Optimized)
                /\ Shown(cell) = Format(MaxGain(r, Optimized), cell.digits)

C10_Witness ==
    /\ meas = Literal
    /\ pc = "save_comparison"
    /\ fig_comparison[6].cells = env["comparison_data"]
    /\ [r \in 1..4 |-> Shown(fig_comparison[6].cells[r][5])] =
           <<551, 633, 818, 551>>

SavingsDrawn ==
    /\ Len(fig_comparison) >= 5
    /\ "ylim" \in DOMAIN fig_comparison[5]

LiteralCosts(d) ==
    \A c \in {"baseline", "4t", "8t"} : Cost(c, d) = Literal[c]["cost"][d]

\* C11: with the costs of the data block, everything drawn in the 'Cost
\* Reduction vs Baseline' panel fits its fixed y-range of 0 to 90: at every
\* dataset size and for both the 4-thread and the 8-thread bars, the savings
\* percentage is at least 0 and its value label, placed at savings + 1.5,
\* is at most 90.
C11_SavingsFitRange ==
    SavingsDrawn =>
        LET panel == fig_comparison[5]
        IN  /\ panel.ylim = <<FZero, FromInt(90)>>
            /\ \A d \in Sizes, k \in 1..2 :
                   LiteralCosts(d) =>
                       /\ panel.series[k].ys[d] =
                              SavingsOf(<<"4t", "8t">>[k], d)
                       /\ panel.texts[d][k].y =
                              FAdd(panel.series[k].ys[d], FromDecimal(15, 1))
                       /\ FLe(panel.ylim[1], panel.series[k].ys[d])
                       /\ FLe(panel.texts[d][k].y, panel.ylim[2])

C11_Witness ==
    /\ meas = Literal
    /\ SavingsDrawn
    /\ pc = "summary_table"
    /\ [d \in Sizes |-> Format(fig_comparison[5].texts[d][2].y, 1)] =
           <<829, 858, 857>>
====
